---- MODULE Spec2Model ----
(***************************************************************************)
(* Live-session store of the JEXAM classroom application.                 *)
(*                                                                         *)
(* Two implementations of the same service object `api` are modelled:     *)
(*   impl = "mock"     : MockBackendService, an in-memory map              *)
(*                       LIVE_SESSIONS plus the array this.classes.  Its   *)
(*                       methods contain no await before their last        *)
(*                       mutation, so each call is one atomic step.        *)
(*   impl = "firebase" : FirebaseService over a document store.  Every     *)
(*                       await of getDoc / updateDoc / setDoc / deleteDoc  *)
(*                       is one step at the store; a call that needs two   *)
(*                       store operations is in flight between them and    *)
(*                       other calls may interleave.                       *)
(* The field started_at (Date.now()) of the document-store record is not   *)
(* modelled: no operation reads it.                                        *)
(***************************************************************************)
EXTENDS Integers, Sequences, FiniteSets, Bags, TLC

(* ---- bounds ---- *)
\* number of service calls made in one run.  It also bounds the number of
\* calls in flight and the length of the stored arrays.
MaxCalls == 5

\* getUserMedia requests counted as pending at one time; further ones are
\* issued but not counted
MaxPending == 2
\* class records in the catalogue that getClasses reads
NumCourses == 11
\* the number of ids the document-store query of a student's classes keeps
InLimit == 10

(* ---- value domains ---- *)
Impls == {"mock", "firebase"}
\* ids passed as classId: "class-1" is a class record, "class-x" is not
ClassIds == {"class-1", "class-x"}
ExistingClasses == {"class-1"}
\* ids passed as studentId / userId
Users == {"s1", "s2"}
StreamMode == {"camera", "screen", "whiteboard"}

\* LIVE_SESSIONS[classId] === undefined, or snap.exists() === false
NoDoc == [absent |-> TRUE]
\* no call completed in the last step
NoCall == [op |-> "none"]
NoUser == "-"

VARIABLES
    impl,      \* which service object is exported as `api`
    classes,   \* classId -> isLive, for the class records that exist
    sessions,  \* classId -> session record or NoDoc
    inflight,  \* bag of document-store calls between their two store operations
    done,      \* the call whose promise settled in the last step, or NoCall
    ncalls,    \* service calls made so far
    log,       \* the calls of a sequential caller that have returned, oldest
               \* first; stays empty when callers overlap
    mounted,           \* the ClassDetail component of the viewer is mounted
    liveState,         \* last value given to setLiveState
    viewIsLive,        \* isLive of the view: last value given to setIsLive
    raisedHandUsers,   \* last value given to setRaisedHandUsers (user ids)
    studentMicStream,  \* the state holds a microphone stream that is not stopped
    leaked,            \* an acquired stream is not stopped and no state holds it
    micPending,        \* getUserMedia requests not yet answered
    micRequested,      \* this step called getUserMedia
    snaps,             \* snapshots of the session document on their way to
                       \* the onSnapshot listener, oldest first
    lookups,           \* raised-hand profile lookups (Promise.all) in flight
    users,             \* ids that have a user profile
    notified,          \* the live / ended notification this step showed
    error,             \* last value given to setError
    role,              \* user.role of the viewer
    streamMode,        \* last value given to setStreamMode
    captures,          \* modes whose manageStream run is awaiting its capture
    selected,          \* the mode button the teacher clicked last in this
                       \* session, if any
    enrollments,       \* the enrollment records
    listed             \* the getClasses call that returned in the last step
                       \* and its result, or NoCall

\* the state of the teacher's stream controls
desk == <<streamMode, captures, selected>>

viewVars == <<mounted, liveState, viewIsLive, raisedHandUsers, studentMicStream,
              leaked, micPending, micRequested, snaps, lookups, users, notified,
              error, role, desk>>

\* the state that getClasses reads and returns
roster == <<enrollments, listed>>

vars == <<impl, classes, sessions, inflight, done, ncalls, log, viewVars, roster>>

\* a further service call is made
Begin == ncalls < MaxCalls /\ ncalls' = ncalls + 1

(* ---- array helpers ---- *)
\* Array.prototype.includes
Includes(arr, x) == \E i \in DOMAIN arr : arr[i] = x

\* arr.filter(id => id !== x)
FilterOut(arr, x) == SelectSeq(arr, LAMBDA id : id # x)

\* number of positions of arr holding x
Count(arr, x) == Cardinality({i \in DOMAIN arr : arr[i] = x})

(* ---- the session record ---- *)
\* the object literal written by setClassLiveStatus(classId, true)
NewSession(c) ==
    [classId |-> c, isLive |-> TRUE, mode |-> "camera",
     raisedHands |-> <<>>, activeSpeakers |-> <<>>]

\* getLiveSessionState / the snapshot handed to a subscriber
GetLiveSessionState(c) == sessions[c]

\* the record a completed call is remembered by
Completed(op, c, u, res, snap, pre) ==
    [op |-> op, c |-> c, u |-> u, res |-> res, snap |-> snap, pre |-> pre]

(* ======================= MockBackendService ========================= *)

\* LIVE_SESSIONS[classId].mode = mode
MockModeRec(s, m) == [s EXCEPT !.mode = m]

\* raisedHands.push(studentId) unless already included
MockRaiseHandRec(s, u) ==
    IF Includes(s.raisedHands, u) THEN s
    ELSE [s EXCEPT !.raisedHands = Append(@, u)]

\* raisedHands = raisedHands.filter(id => id !== studentId)
MockLowerHandRec(s, u) == [s EXCEPT !.raisedHands = FilterOut(@, u)]

\* activeSpeakers.push(studentId) unless included; then this.lowerHand
\* faulty variant: the admitted user's hand stays raised
MockAllowSpeakerRec_NoLower(s, u) ==
    IF Includes(s.activeSpeakers, u) THEN s
    ELSE [s EXCEPT !.activeSpeakers = Append(@, u)]

MockAllowSpeakerRec(s, u) ==
    MockLowerHandRec(
        IF Includes(s.activeSpeakers, u) THEN s
        ELSE [s EXCEPT !.activeSpeakers = Append(@, u)], u)

\* faulty variant: the filter predicate inverted, id === studentId
MockMuteSpeakerRec_Inverted(s, u) ==
    [s EXCEPT !.activeSpeakers = SelectSeq(@, LAMBDA id : id = u)]

\* activeSpeakers = activeSpeakers.filter(id => id !== studentId)
MockMuteSpeakerRec(s, u) == [s EXCEPT !.activeSpeakers = FilterOut(@, u)]

\* faulty variant: going live keeps a session record that is already there
\* faulty variant: ending only clears the flag of the session record and
\* starting re-flags a record that is still there
MockLiveSessions_Resume(c, isLive) ==
    [sessions EXCEPT ![c] = IF @ = NoDoc
                            THEN (IF isLive THEN NewSession(c) ELSE NoDoc)
                            ELSE [@ EXCEPT !.isLive = isLive]]

MockLiveSessions_KeepExisting(c, isLive) ==
    IF isLive /\ sessions[c] # NoDoc THEN sessions
    ELSE [sessions EXCEPT ![c] = IF isLive THEN NewSession(c) ELSE NoDoc]

\* the session map after setClassLiveStatus found the class
MockLiveSessions(c, isLive) ==
    [sessions EXCEPT ![c] = IF isLive THEN NewSession(c) ELSE NoDoc]

\* faulty variant: the session record is written outside the class check
MockSetClassLiveStatus_NoClassCheck(c, isLive) ==
    /\ impl = "mock"
    /\ Begin
    /\ classes' = IF c \in DOMAIN classes
                  THEN [classes EXCEPT ![c] = isLive] ELSE classes
    /\ sessions' = MockLiveSessions(c, isLive)
    /\ done' = Completed(IF isLive THEN "startSession" ELSE "endSession",
                         c, NoUser, "ok", sessions[c], sessions[c])
    /\ UNCHANGED <<impl, inflight>>

MockSetClassLiveStatus(c, isLive) ==
    /\ impl = "mock"
    /\ Begin
    /\ IF c \in DOMAIN classes
       THEN /\ classes' = [classes EXCEPT ![c] = isLive]
            /\ sessions' = MockLiveSessions(c, isLive)
       ELSE UNCHANGED <<classes, sessions>>
    /\ done' = Completed(IF isLive THEN "startSession" ELSE "endSession",
                         c, NoUser, "ok", sessions[c], sessions[c])
    /\ UNCHANGED <<impl, inflight>>

\* faulty variant: the existence test dropped, so the property access on undefined
\* throws
MockMutate_NoGuard(op, c, u, new) ==
    /\ impl = "mock"
    /\ Begin
    /\ sessions' = IF sessions[c] # NoDoc
                   THEN [sessions EXCEPT ![c] = new] ELSE sessions
    /\ done' = Completed(op, c, u, IF sessions[c] # NoDoc THEN "ok" ELSE "error",
                         sessions[c], sessions[c])
    /\ UNCHANGED <<impl, classes, inflight>>

\* a method of the form  if (LIVE_SESSIONS[classId]) { ...mutate... }
MockMutate(op, c, u, new) ==
    /\ impl = "mock"
    /\ Begin
    /\ sessions' = IF sessions[c] # NoDoc
                   THEN [sessions EXCEPT ![c] = new] ELSE sessions
    /\ done' = Completed(op, c, u, "ok", sessions[c], sessions[c])
    /\ UNCHANGED <<impl, classes, inflight>>

MockUpdateStreamMode(c, m) ==
    MockMutate("updateStreamMode", c, NoUser,
               IF sessions[c] # NoDoc THEN MockModeRec(sessions[c], m) ELSE NoDoc)

MockRaiseHand(c, u) ==
    MockMutate("raiseHand", c, u,
               IF sessions[c] # NoDoc THEN MockRaiseHandRec(sessions[c], u) ELSE NoDoc)

MockLowerHand(c, u) ==
    MockMutate("lowerHand", c, u,
               IF sessions[c] # NoDoc THEN MockLowerHandRec(sessions[c], u) ELSE NoDoc)

MockAllowSpeaker(c, u) ==
    MockMutate("allowSpeaker", c, u,
               IF sessions[c] # NoDoc THEN MockAllowSpeakerRec(sessions[c], u) ELSE NoDoc)

MockMuteSpeaker(c, u) ==
    MockMutate("muteSpeaker", c, u,
               IF sessions[c] # NoDoc THEN MockMuteSpeakerRec(sessions[c], u) ELSE NoDoc)

(* ========================== FirebaseService ========================== *)

\* faulty variant: the write replaces the document (setDoc), so the fields it
\* does not name fall back to those of a new session
Merge_Replace(data, fields) ==
    [k \in DOMAIN data |->
        IF k \in DOMAIN fields THEN fields[k] ELSE NewSession(data.classId)[k]]

\* updateDoc merges the given fields into the stored document
Merge(data, fields) ==
    [k \in DOMAIN data |-> IF k \in DOMAIN fields THEN fields[k] ELSE data[k]]

\* faulty variant: setDoc(ref, fields, { merge: true }) in place of updateDoc, which
\* creates the document when it is missing
UpdateDoc_Upsert(c, fields) ==
    [res |-> "ok",
     store |-> [sessions EXCEPT
                   ![c] = Merge(IF @ = NoDoc THEN NewSession(c) ELSE @, fields)]]

\* updateDoc(doc(db, 'sessions', classId), fields): rejects when the
\* document does not exist, never creates it
UpdateDoc(c, fields) ==
    IF sessions[c] # NoDoc
    THEN [res |-> "ok", store |-> [sessions EXCEPT ![c] = Merge(@, fields)]]
    ELSE [res |-> "error", store |-> sessions]

\* faulty variant: ending the broadcast clears the flag of the session document
\* instead of deleting the document
FbLiveSessions_FlagOnly(c, isLive) ==
    [sessions EXCEPT ![c] = IF isLive THEN NewSession(c)
                            ELSE IF @ = NoDoc THEN NoDoc
                            ELSE [@ EXCEPT !.isLive = FALSE]]

\* setDoc(sessionRef, session) / deleteDoc(sessionRef)
FbLiveSessions(c, isLive) ==
    [sessions EXCEPT ![c] = IF isLive THEN NewSession(c) ELSE NoDoc]

\* faulty variant: the new array built from the stored array at write time (a
\* server-side union), not from the snapshot the call read
FbRaiseHandFields_Union(data, u) ==
    IF sessions[data.classId] = NoDoc
    THEN [raisedHands |-> Append(data.raisedHands, u)]
    ELSE [raisedHands |->
            IF Includes(sessions[data.classId].raisedHands, u)
            THEN sessions[data.classId].raisedHands
            ELSE Append(sessions[data.classId].raisedHands, u)]

\* { raisedHands: [...data.raisedHands, userId] }
FbRaiseHandFields(data, u) == [raisedHands |-> Append(data.raisedHands, u)]

\* { raisedHands: data.raisedHands.filter(id => id !== userId) }
FbLowerHandFields(data, u) == [raisedHands |-> FilterOut(data.raisedHands, u)]

\* faulty variant: the hand is not lowered on admission
FbAllowSpeakerFields_NoLower(data, u) ==
    [activeSpeakers |-> Append(data.activeSpeakers, u)]

\* { activeSpeakers: [...data.activeSpeakers, userId], raisedHands: filtered }
FbAllowSpeakerFields(data, u) ==
    [activeSpeakers |-> Append(data.activeSpeakers, u),
     raisedHands |-> FilterOut(data.raisedHands, u)]

\* a call suspended between its first and its second store operation;
\* inflight is the bag of them
Pending(op, c, u, snap) == [op |-> op, c |-> c, u |-> u, snap |-> snap]

\* the bag of suspended calls with one more, with one fewer
Suspend(call) == inflight (+) SetToBag({call})
Resume(call) == inflight (-) SetToBag({call})

\* first await of setClassLiveStatus: updateDoc(classRef, { isLive })
FbSetClassLiveStatusClass(c, isLive) ==
    /\ impl = "firebase"
    /\ Begin
    /\ LET op == IF isLive THEN "startSession" ELSE "endSession" IN
       IF c \in DOMAIN classes
       THEN /\ classes' = [classes EXCEPT ![c] = isLive]
            /\ inflight' = Suspend(Pending(op, c, NoUser, NoDoc))
            /\ done' = NoCall
       ELSE /\ done' = Completed(op, c, NoUser, "error", NoDoc, sessions[c])
            /\ UNCHANGED <<classes, inflight>>
    /\ UNCHANGED <<impl, sessions>>

\* faulty variant: ending updates the session document instead of deleting
\* it, which rejects when the document is already gone
FbSetClassLiveStatusSession_UpdateOnEnd(call) ==
    /\ impl = "firebase"
    /\ BagIn(call, inflight)
    /\ call.op \in {"startSession", "endSession"}
    /\ sessions' = FbLiveSessions(call.c, call.op = "startSession")
    /\ inflight' = Resume(call)
    /\ done' = Completed(call.op, call.c, NoUser,
                         IF call.op = "endSession" /\ sessions[call.c] = NoDoc
                         THEN "error" ELSE "ok",
                         NoDoc, sessions[call.c])
    /\ UNCHANGED <<impl, classes, ncalls>>

\* second await of setClassLiveStatus: setDoc or deleteDoc on the session
FbSetClassLiveStatusSession(call) ==
    /\ impl = "firebase"
    /\ BagIn(call, inflight)
    /\ call.op \in {"startSession", "endSession"}
    /\ sessions' = FbLiveSessions(call.c, call.op = "startSession")
    /\ inflight' = Resume(call)
    /\ done' = Completed(call.op, call.c, NoUser, "ok", NoDoc, sessions[call.c])
    /\ UNCHANGED <<impl, classes, ncalls>>

\* updateStreamMode: a single updateDoc, no read
FbUpdateStreamMode(c, m) ==
    /\ impl = "firebase"
    /\ Begin
    /\ sessions' = UpdateDoc(c, [mode |-> m]).store
    /\ done' = Completed("updateStreamMode", c, NoUser,
                         UpdateDoc(c, [mode |-> m]).res, sessions[c], sessions[c])
    /\ UNCHANGED <<impl, classes, inflight>>

\* getDoc(sessionRef) of raiseHand / lowerHand / allowSpeaker.  The call
\* returns here when skip holds, else it goes on to its updateDoc.
FbRead(op, c, u, skip) ==
    /\ impl = "firebase"
    /\ Begin
    /\ IF skip
       THEN /\ done' = Completed(op, c, u, "ok", sessions[c], sessions[c])
            /\ UNCHANGED inflight
       ELSE /\ inflight' = Suspend(Pending(op, c, u, sessions[c]))
            /\ done' = NoCall
    /\ UNCHANGED <<impl, classes, sessions>>

\* updateDoc(sessionRef, fields) of raiseHand / lowerHand / allowSpeaker
FbWrite(call, op, fields) ==
    /\ impl = "firebase"
    /\ BagIn(call, inflight)
    /\ call.op = op
    /\ sessions' = UpdateDoc(call.c, fields).store
    /\ inflight' = Resume(call)
    /\ done' = Completed(op, call.c, call.u, UpdateDoc(call.c, fields).res,
                         call.snap, sessions[call.c])
    /\ UNCHANGED <<impl, classes, ncalls>>

FbRaiseHandRead(c, u) ==
    FbRead("raiseHand", c, u,
           sessions[c] = NoDoc \/ Includes(sessions[c].raisedHands, u))

FbRaiseHandWrite(call) ==
    FbWrite(call, "raiseHand", FbRaiseHandFields(call.snap, call.u))

FbLowerHandRead(c, u) == FbRead("lowerHand", c, u, sessions[c] = NoDoc)

FbLowerHandWrite(call) ==
    FbWrite(call, "lowerHand", FbLowerHandFields(call.snap, call.u))

FbAllowSpeakerRead(c, u) == FbRead("allowSpeaker", c, u, sessions[c] = NoDoc)

FbAllowSpeakerWrite(call) ==
    FbWrite(call, "allowSpeaker", FbAllowSpeakerFields(call.snap, call.u))

(* ============ a call run alone, from its start to its end ============ *)

\* the session record after op(classId, u) ran with no other call
\* interleaved, for a record s that exists
RunAlone(op, s, u) ==
    IF impl = "mock"
    THEN CASE op = "raiseHand"    -> MockRaiseHandRec(s, u)
           [] op = "lowerHand"    -> MockLowerHandRec(s, u)
           [] op = "allowSpeaker" -> MockAllowSpeakerRec(s, u)
           [] op = "muteSpeaker"  -> MockMuteSpeakerRec(s, u)
    ELSE CASE op = "raiseHand"    ->
                IF Includes(s.raisedHands, u) THEN s
                ELSE Merge(s, FbRaiseHandFields(s, u))
           [] op = "lowerHand"    -> Merge(s, FbLowerHandFields(s, u))
           [] op = "allowSpeaker" -> Merge(s, FbAllowSpeakerFields(s, u))

\* the membership operations the service object has
MemberOps ==
    IF impl = "mock" THEN {"raiseHand", "lowerHand", "allowSpeaker", "muteSpeaker"}
    ELSE {"raiseHand", "lowerHand", "allowSpeaker"}

(* ============================ Init / Next ============================ *)

\* the state after construction, with the profiles of registered and a
\* viewer of role viewerRole
StartedAs(registered, viewerRole) ==
    /\ impl \in Impls
    /\ classes = [c \in ExistingClasses |-> FALSE]
    /\ sessions = [c \in ClassIds |-> NoDoc]
    /\ inflight = EmptyBag
    /\ done = NoCall
    /\ ncalls = 0
    /\ log = <<>>
    /\ mounted = TRUE
    /\ liveState = NoDoc
    /\ viewIsLive = FALSE
    /\ raisedHandUsers = <<>>
    /\ studentMicStream = FALSE
    /\ leaked = FALSE
    /\ micPending = 0
    /\ micRequested = FALSE
    /\ snaps = IF impl = "firebase" THEN <<NoDoc>> ELSE <<>>
    /\ lookups = {}
    /\ users = registered
    /\ notified = "none"
    /\ error = ""
    /\ role = viewerRole
    /\ streamMode = "camera"
    /\ captures = {}
    /\ selected = NoUser
    /\ enrollments = {}
    /\ listed = NoCall

\* the state after construction with a student as viewer
Started(registered) == StartedAs(registered, "student")

\* every student is registered
Init == Started(Users)

\* a step of callers that may overlap: nothing is logged
Unlogged == UNCHANGED log

\* a step of the service that no view takes part in
Unwatched ==
    /\ micRequested' = FALSE
    /\ notified' = "none"
    /\ UNCHANGED <<mounted, liveState, viewIsLive, raisedHandUsers,
                   studentMicStream, leaked, micPending, snaps, lookups,
                   users, roster, error, role, desk>>

Next ==
    \/ \E c \in ClassIds, b \in BOOLEAN : MockSetClassLiveStatus(c, b) /\ Unlogged /\ Unwatched
    \/ \E c \in ClassIds, m \in StreamMode : MockUpdateStreamMode(c, m) /\ Unlogged /\ Unwatched
    \/ \E c \in ClassIds, u \in Users : MockRaiseHand(c, u) /\ Unlogged /\ Unwatched
    \/ \E c \in ClassIds, u \in Users : MockLowerHand(c, u) /\ Unlogged /\ Unwatched
    \/ \E c \in ClassIds, u \in Users : MockAllowSpeaker(c, u) /\ Unlogged /\ Unwatched
    \/ \E c \in ClassIds, u \in Users : MockMuteSpeaker(c, u) /\ Unlogged /\ Unwatched
    \/ \E c \in ClassIds, b \in BOOLEAN : FbSetClassLiveStatusClass(c, b) /\ Unlogged /\ Unwatched
    \/ \E call \in BagToSet(inflight) : FbSetClassLiveStatusSession(call) /\ Unlogged /\ Unwatched
    \/ \E c \in ClassIds, m \in StreamMode : FbUpdateStreamMode(c, m) /\ Unlogged /\ Unwatched
    \/ \E c \in ClassIds, u \in Users : FbRaiseHandRead(c, u) /\ Unlogged /\ Unwatched
    \/ \E call \in BagToSet(inflight) : FbRaiseHandWrite(call) /\ Unlogged /\ Unwatched
    \/ \E c \in ClassIds, u \in Users : FbLowerHandRead(c, u) /\ Unlogged /\ Unwatched
    \/ \E call \in BagToSet(inflight) : FbLowerHandWrite(call) /\ Unlogged /\ Unwatched
    \/ \E c \in ClassIds, u \in Users : FbAllowSpeakerRead(c, u) /\ Unlogged /\ Unwatched
    \/ \E call \in BagToSet(inflight) : FbAllowSpeakerWrite(call) /\ Unlogged /\ Unwatched

Spec == Init /\ [][Next]_vars

(* ======================= one caller, call after call ================== *)

\* the class the sequential caller works on
SeqClasses == ExistingClasses

\* a call returned in this step: it is appended to the log
Logged ==
    log' = IF done' # NoCall
           THEN Append(log, <<done'.op, done'.c, done'.u>>) ELSE log

\* the caller awaits each call before it makes the next one
Awaited == inflight = EmptyBag

SeqNext ==
    \/ \E c \in SeqClasses, b \in BOOLEAN : MockSetClassLiveStatus(c, b) /\ Logged /\ Unwatched
    \/ \E c \in SeqClasses, u \in Users : MockRaiseHand(c, u) /\ Logged /\ Unwatched
    \/ \E c \in SeqClasses, u \in Users : MockLowerHand(c, u) /\ Logged /\ Unwatched
    \/ \E c \in SeqClasses, u \in Users : MockAllowSpeaker(c, u) /\ Logged /\ Unwatched
    \/ \E c \in SeqClasses, b \in BOOLEAN :
          Awaited /\ FbSetClassLiveStatusClass(c, b) /\ Logged /\ Unwatched
    \/ \E call \in BagToSet(inflight) : FbSetClassLiveStatusSession(call) /\ Logged /\ Unwatched
    \/ \E c \in SeqClasses, u \in Users : Awaited /\ FbRaiseHandRead(c, u) /\ Logged /\ Unwatched
    \/ \E call \in BagToSet(inflight) : FbRaiseHandWrite(call) /\ Logged /\ Unwatched
    \/ \E c \in SeqClasses, u \in Users : Awaited /\ FbLowerHandRead(c, u) /\ Logged /\ Unwatched
    \/ \E call \in BagToSet(inflight) : FbLowerHandWrite(call) /\ Logged /\ Unwatched
    \/ \E c \in SeqClasses, u \in Users : Awaited /\ FbAllowSpeakerRead(c, u) /\ Logged /\ Unwatched
    \/ \E call \in BagToSet(inflight) : FbAllowSpeakerWrite(call) /\ Logged /\ Unwatched

SpecSeq == Init /\ [][SeqNext]_vars

(* ========================= the class view (ClassDetail) ================ *)

\* user.id of the viewer, a student, and classModel.id of the class viewed
Viewer == "s1"
ViewClass == "class-1"

\* getUserById: the profile of the id, here the id itself, or undefined
GetUserById(u) == IF u \in users THEN u ELSE NoUser

\* faulty variant: one missing profile empties the whole list
Resolved_AllOrNothing(hands) ==
    IF \A i \in 1..Len(hands) : GetUserById(hands[i]) # NoUser
    THEN hands ELSE <<>>

\* Promise.all(hands.map(id => api.getUserById(id))), then
\* users.filter(u => !!u)
Resolved(hands) ==
    LET found == [i \in 1..Len(hands) |-> GetUserById(hands[i])]
        IsUser(u) == u # NoUser
    IN SelectSeq(found, IsUser)

\* isLive as the closure of the subscription callback sees it: the value of the
\* render at mount, when the class is not live
MountIsLive == FALSE

\* the notification shown when the observed liveness differs from the one
\* compared with
Notification(live, compared) ==
    IF live # compared THEN (IF live THEN "live" ELSE "ended") ELSE "none"

\* the message of the microphone catch
MicError == "Teacher allowed you to speak, but mic access failed."

\* st?.activeSpeakers.includes(user.id)
IsAllowed(st) == st # NoDoc /\ Includes(st.activeSpeakers, Viewer)

\* the student's microphone check: allowed and no stream held, request the
\* microphone; not allowed and a stream held, stop its tracks and drop it
MicCheck(st) ==
    IF IsAllowed(st) /\ ~studentMicStream
    THEN /\ micPending' = IF micPending < MaxPending THEN micPending + 1 ELSE micPending
         /\ micRequested' = TRUE
         /\ UNCHANGED <<studentMicStream, leaked>>
    ELSE IF ~IsAllowed(st) /\ studentMicStream
    THEN /\ studentMicStream' = FALSE
         /\ micRequested' = FALSE
         /\ UNCHANGED <<micPending, leaked>>
    ELSE /\ micRequested' = FALSE
         /\ UNCHANGED <<micPending, studentMicStream, leaked>>

\* faulty variant: the tick keeps the last record when the session is gone
PolledState_KeepLast(st) == IF st = NoDoc THEN liveState ELSE st

\* what a poll tick hands to setLiveState
PolledState(st) == st

\* one tick of the polling view: getClass and getLiveSessionState of the
\* in-memory service resolve without a timer, so the tick runs in one piece up
\* to getUserMedia
PollTick ==
    /\ impl = "mock"
    /\ mounted
    /\ LET st == GetLiveSessionState(ViewClass) IN
         /\ liveState' = PolledState(st)
         /\ raisedHandUsers' = IF st # NoDoc THEN Resolved(st.raisedHands) ELSE <<>>
         /\ viewIsLive' = classes[ViewClass]
         /\ notified' = Notification(classes[ViewClass], viewIsLive)
         /\ MicCheck(st)
    /\ done' = NoCall
    /\ UNCHANGED <<impl, classes, sessions, inflight, ncalls, log,
                   mounted, snaps, lookups, users, roster, error, role, desk>>

\* a write to the session document of the viewed class reaches the listener
\* as one more snapshot
Listened ==
    /\ snaps' = IF mounted /\ sessions'[ViewClass] # sessions[ViewClass]
                THEN Append(snaps, sessions'[ViewClass]) ELSE snaps
    /\ micRequested' = FALSE
    /\ notified' = "none"
    /\ UNCHANGED <<mounted, liveState, viewIsLive, raisedHandUsers, studentMicStream,
                   leaked, micPending, lookups, users, roster, role>>

\* a write of a student, or of the teacher's admission, reaches the listener
Pushed == Listened /\ UNCHANGED <<error, desk>>

\* the effect on [streamMode, isLive]: manageStream returns at once when the
\* class is not live, else it starts the capture of the mode (for the
\* whiteboard there is no capture and it goes on to updateStreamMode)
ManageStream(mode, live, pending) ==
    IF live THEN pending \cup {mode} ELSE pending

\* the captures after setStreamMode(mode): the effect runs when the mode
\* changed and the component is mounted
AfterSetStreamMode(mode, pending) ==
    IF mounted /\ mode # streamMode
    THEN ManageStream(mode, viewIsLive, pending) ELSE pending

\* the teacher clicks the live button: handleToggleLive clears the message and
\* starts the broadcast when the view shows it idle, ends it otherwise
ToggleClicked ==
    /\ error' = ""
    /\ micRequested' = FALSE
    /\ notified' = "none"
    /\ UNCHANGED <<mounted, liveState, viewIsLive, raisedHandUsers, studentMicStream,
                   leaked, micPending, snaps, lookups, users, roster, role, desk>>

\* the second await of setClassLiveStatus returns to handleToggleLive, which
\* after a start calls setStreamMode(CAMERA)
Toggled(call) ==
    /\ Listened
    /\ UNCHANGED error
    /\ IF role = "teacher"
       THEN /\ selected' = NoUser
            /\ IF call.op = "startSession"
               THEN /\ streamMode' = "camera"
                    /\ captures' = AfterSetStreamMode("camera", captures)
               ELSE UNCHANGED <<streamMode, captures>>
       ELSE UNCHANGED desk

\* the onSnapshot callback of the push view, and the effects that run after
\* it: the student's microphone effect when liveState changed, the teacher's
\* manageStream when streamMode or isLive changed
Deliver ==
    /\ impl = "firebase"
    /\ mounted
    /\ snaps # <<>>
    /\ LET st == Head(snaps) IN
         /\ liveState' = st
         /\ viewIsLive' = (st # NoDoc /\ st.isLive)
         /\ notified' = Notification(st # NoDoc /\ st.isLive, MountIsLive)
         /\ IF st # NoDoc /\ st.raisedHands # <<>>
            THEN /\ lookups' = lookups \cup {st.raisedHands}
                 /\ UNCHANGED raisedHandUsers
            ELSE /\ raisedHandUsers' = <<>>
                 /\ UNCHANGED lookups
         /\ IF role = "student" /\ st # liveState
            THEN MicCheck(st)
            ELSE /\ micRequested' = FALSE
                 /\ UNCHANGED <<micPending, studentMicStream, leaked>>
         /\ streamMode' = IF st # NoDoc THEN st.mode ELSE streamMode
         /\ captures' = IF /\ role = "teacher"
                           /\ \/ streamMode' # streamMode
                              \/ viewIsLive' # viewIsLive
                        THEN ManageStream(streamMode', viewIsLive', captures)
                        ELSE captures
    /\ snaps' = Tail(snaps)
    /\ done' = NoCall
    /\ UNCHANGED <<impl, classes, sessions, inflight, ncalls, log, mounted,
                   users, roster, error, role, selected>>

\* Promise.all of the profile lookups resolves
LookupDone(hands) ==
    /\ hands \in lookups
    /\ lookups' = lookups \ {hands}
    /\ raisedHandUsers' = Resolved(hands)
    /\ micRequested' = FALSE
    /\ notified' = "none"
    /\ done' = NoCall
    /\ UNCHANGED <<impl, classes, sessions, inflight, ncalls, log, mounted,
                   liveState, viewIsLive, studentMicStream, leaked, micPending, snaps,
                   users, roster, error, role, desk>>

\* the browser answers a getUserMedia request with a stream
MicGranted ==
    /\ micPending > 0
    /\ micPending' = micPending - 1
    /\ studentMicStream' = TRUE
    /\ leaked' = (leaked \/ studentMicStream)
    /\ micRequested' = FALSE
    /\ notified' = "none"
    /\ done' = NoCall
    /\ UNCHANGED <<impl, classes, sessions, inflight, ncalls, log, mounted,
                   liveState, viewIsLive, raisedHandUsers, snaps, lookups,
                   users, roster, error, role, desk>>

\* the browser answers a getUserMedia request with a refusal: the catch
\* sets the error message
MicDenied ==
    /\ micPending > 0
    /\ micPending' = micPending - 1
    /\ error' = MicError
    /\ micRequested' = FALSE
    /\ notified' = "none"
    /\ done' = NoCall
    /\ UNCHANGED <<impl, classes, sessions, inflight, ncalls, log, mounted,
                   liveState, viewIsLive, raisedHandUsers, studentMicStream, leaked,
                   snaps, lookups, users, roster, role, desk>>

\* the message of the catch of manageStream
MediaError == "Failed to access media device."

\* the teacher clicks the button of another mode
SelectMode(m) ==
    /\ role = "teacher"
    /\ mounted
    /\ viewIsLive
    /\ m # streamMode
    /\ streamMode' = m
    /\ selected' = m
    /\ captures' = AfterSetStreamMode(m, captures)
    /\ micRequested' = FALSE
    /\ notified' = "none"
    /\ done' = NoCall
    /\ UNCHANGED <<impl, classes, sessions, inflight, ncalls, log, mounted,
                   liveState, viewIsLive, raisedHandUsers, studentMicStream, leaked,
                   micPending, snaps, lookups, users, roster, error, role>>

\* faulty variant: the catch puts the mode back but shows no message
CaptureFailed_Silent(m) ==
    /\ error' = error
    /\ streamMode' = "camera"
    /\ captures' = AfterSetStreamMode("camera", captures \ {m})

\* the catch of manageStream: the message is set and the mode put back to
\* CAMERA, which runs the effect again when the mode was another one
CaptureFailed(m) ==
    /\ error' = MediaError
    /\ streamMode' = "camera"
    /\ captures' = AfterSetStreamMode("camera", captures \ {m})

\* the capture of a manageStream run succeeds (the whiteboard needs none) and
\* the run goes on to api.updateStreamMode, which rejects when the session
\* document is gone
CaptureGranted(m) ==
    /\ m \in captures
    /\ FbUpdateStreamMode(ViewClass, m)
    /\ IF UpdateDoc(ViewClass, [mode |-> m]).res = "ok"
       THEN /\ captures' = captures \ {m}
            /\ UNCHANGED <<streamMode, error>>
       ELSE CaptureFailed(m)
    /\ Listened
    /\ UNCHANGED <<log, selected>>

\* getUserMedia or getDisplayMedia of a manageStream run rejects
CaptureDenied(m) ==
    /\ m \in captures
    /\ m # "whiteboard"
    /\ CaptureFailed(m)
    /\ micRequested' = FALSE
    /\ notified' = "none"
    /\ done' = NoCall
    /\ UNCHANGED <<impl, classes, sessions, inflight, ncalls, log, mounted,
                   liveState, viewIsLive, raisedHandUsers, studentMicStream, leaked,
                   micPending, snaps, lookups, users, roster, role, selected>>

\* the component is unmounted: the effect cleanups run
Teardown ==
    /\ mounted
    /\ mounted' = FALSE
    /\ snaps' = <<>>
    /\ micRequested' = FALSE
    /\ notified' = "none"
    /\ done' = NoCall
    /\ UNCHANGED <<impl, classes, sessions, inflight, ncalls, log,
                   liveState, viewIsLive, raisedHandUsers, studentMicStream, leaked,
                   micPending, lookups, users, roster, error, role, desk>>

\* the students of the class other than the viewer
Others == Users \ {Viewer}

\* the teacher and the students call the service one call at a time; the
\* teacher admits and mutes the viewer, the students raise their hands
ViewNext ==
    \/ \E b \in BOOLEAN : MockSetClassLiveStatus(ViewClass, b) /\ Unlogged /\ Unwatched
    \/ \E u \in Users : MockRaiseHand(ViewClass, u) /\ Unlogged /\ Unwatched
    \/ MockAllowSpeaker(ViewClass, Viewer) /\ Unlogged /\ Unwatched
    \/ MockMuteSpeaker(ViewClass, Viewer) /\ Unlogged /\ Unwatched
    \/ \E b \in BOOLEAN :
          Awaited /\ FbSetClassLiveStatusClass(ViewClass, b) /\ Unlogged /\ Unwatched
    \/ \E call \in BagToSet(inflight) :
          FbSetClassLiveStatusSession(call) /\ Unlogged /\ Pushed
    \/ \E u \in Users :
          Awaited /\ FbRaiseHandRead(ViewClass, u) /\ Unlogged /\ Unwatched
    \/ \E call \in BagToSet(inflight) : FbRaiseHandWrite(call) /\ Unlogged /\ Pushed
    \/ Awaited /\ FbAllowSpeakerRead(ViewClass, Viewer) /\ Unlogged /\ Unwatched
    \/ \E call \in BagToSet(inflight) : FbAllowSpeakerWrite(call) /\ Unlogged /\ Pushed
    \/ PollTick
    \/ Deliver
    \/ \E hands \in lookups : LookupDone(hands)
    \/ MicGranted
    \/ MicDenied
    \/ Teardown

\* the viewer has a profile; the other students have one or have none
ViewInit == \E registered \in {Users, Users \ Others} : Started(registered)

SpecView == ViewInit /\ [][ViewNext]_vars

\* the interval timer keeps firing and the listener keeps delivering
SpecViewFair == SpecView /\ WF_vars(PollTick) /\ WF_vars(Deliver)

(* =================== the teacher's push view (ClassDetail) ============= *)

\* the teacher starts and ends the broadcast and picks the stream mode, a
\* student raises a hand, the teacher's view listens to the session document
TeacherNext ==
    \/ Awaited /\ FbSetClassLiveStatusClass(ViewClass, ~viewIsLive)
               /\ Unlogged /\ ToggleClicked
    \/ \E call \in BagToSet(inflight) :
          FbSetClassLiveStatusSession(call) /\ Unlogged /\ Toggled(call)
    \/ \E u \in Others :
          Awaited /\ FbRaiseHandRead(ViewClass, u) /\ Unlogged /\ Unwatched
    \/ \E call \in BagToSet(inflight) : FbRaiseHandWrite(call) /\ Unlogged /\ Pushed
    \/ Deliver
    \/ \E hands \in lookups : LookupDone(hands)
    \/ \E m \in StreamMode : SelectMode(m)
    \/ \E m \in captures : CaptureGranted(m)
    \/ \E m \in captures : CaptureDenied(m)
    \/ Teardown

TeacherInit == StartedAs(Users, "teacher") /\ impl = "firebase"

SpecTeacher == TeacherInit /\ [][TeacherNext]_vars

(* ================= the class view of either kind of user =============== *)

\* the viewer is a student, in the polling or the push view, or the teacher
\* in the push view
AnyViewNext ==
    \/ role = "student" /\ ViewNext
    \/ role = "teacher" /\ TeacherNext

AnyViewInit == ViewInit \/ TeacherInit

SpecAnyView == AnyViewInit /\ [][AnyViewNext]_vars

(* ============================ getClasses ============================== *)

\* the class records: their ids and their teacher_id field
Courses == 1..NumCourses
Teachers == {"teacher-1", "teacher-2"}
TeacherOf(c) == IF c % 2 = 1 THEN "teacher-1" ELSE "teacher-2"

\* the class_id of the enrollment records of a student
EnrolledIds(userId) ==
    {e.class_id : e \in {e \in enrollments : e.student_id = userId}}

\* getClasses of the in-memory service (the ids of the classes returned)
MockGetClasses(userId, r) ==
    IF r = "teacher"
    THEN {c \in Courses : TeacherOf(c) = userId}
    ELSE {c \in Courses : c \in EnrolledIds(userId)}

\* classIds.slice(0, 10): the enrollment query has no order, so the ids kept
\* are any InLimit of them
Sliced(classIds) ==
    {kept \in SUBSET classIds :
        Cardinality(kept) = IF Cardinality(classIds) < InLimit
                            THEN Cardinality(classIds) ELSE InLimit}

\* getClasses of the document store: the results it can return
FbGetClasses(userId, r) ==
    IF r = "teacher"
    THEN {{c \in Courses : TeacherOf(c) = userId}}
    ELSE IF EnrolledIds(userId) = {}
         THEN {{}}
         ELSE {{c \in Courses : c \in kept} : kept \in Sliced(EnrolledIds(userId))}

\* nothing but the enrollments and the listing changes
ClassesOnly ==
    /\ micRequested' = FALSE
    /\ notified' = "none"
    /\ UNCHANGED <<impl, classes, sessions, inflight, done, ncalls, log, mounted,
                   liveState, viewIsLive, raisedHandUsers, studentMicStream,
                   leaked, micPending, snaps, lookups, users, error, role, desk>>

\* enrollStudent: one more enrollment record.  A student takes the classes in
\* the order of their ids, and is enrolled in a class once.
EnrollStudent(classId, studentId) ==
    /\ classId = Cardinality(EnrolledIds(studentId)) + 1
    /\ enrollments' = enrollments
                        \cup {[class_id |-> classId, student_id |-> studentId]}
    /\ listed' = NoCall
    /\ ClassesOnly

\* getClasses(userId, role) returns
GetClasses(userId, r) ==
    /\ \E result \in IF impl = "mock" THEN {MockGetClasses(userId, r)}
                                      ELSE FbGetClasses(userId, r) :
          listed' = [op |-> "getClasses", user |-> userId, role |-> r,
                     classes |-> result]
    /\ UNCHANGED enrollments
    /\ ClassesOnly

ClassesNext ==
    \/ \E c \in Courses, u \in Users : EnrollStudent(c, u)
    \/ \E u \in Users : GetClasses(u, "student")
    \/ \E t \in Teachers : GetClasses(t, "teacher")

SpecClasses == Init /\ [][ClassesNext]_vars

(* ============================== claims ============================== *)

\* a just-started session: camera mode, nobody raised, nobody speaking
IsFresh(s) ==
    /\ s # NoDoc
    /\ s.mode = "camera"
    /\ s.raisedHands = <<>>
    /\ s.activeSpeakers = <<>>

\* C1 as written: for every id c, right after startSession(c) has returned,
\* getSessionState(c) is a record with mode camera and both lists empty.
C1_StartThenGetAnyId ==
    (done.op = "startSession" /\ done.res = "ok")
        => IsFresh(GetLiveSessionState(done.c))

\* C1 (amended): for every id c of an existing class, right after
\* startSession(c) has returned, getSessionState(c) is a record with mode
\* camera, empty raisedHands and empty activeSpeakers, whatever the session
\* was before.
C1_StartThenGet ==
    (done.op = "startSession" /\ done.res = "ok" /\ done.c \in DOMAIN classes)
        => IsFresh(GetLiveSessionState(done.c))

\* startSession returned on a class whose session was in another mode with
\* a hand raised
C1_Witness ==
    /\ done.op = "startSession"
    /\ done.res = "ok"
    /\ done.c \in DOMAIN classes
    /\ done.pre # NoDoc
    /\ done.pre.mode # "camera"
    /\ done.pre.raisedHands # <<>>
    /\ IsFresh(GetLiveSessionState(done.c))

\* C2: a session record exists for a class id iff that class exists and its
\* isLive flag is true, in every reachable state of the store.
C2_SessionIffLive ==
    \A c \in ClassIds :
        (sessions[c] # NoDoc) <=> (c \in DOMAIN classes /\ classes[c])

\* C3: right after allowSpeaker(c,u) has returned on a live session, u is in
\* activeSpeakers and not in raisedHands.
C3_AdmitPost ==
    (done.op = "allowSpeaker" /\ done.res = "ok" /\ done.snap # NoDoc)
        => /\ sessions[done.c] # NoDoc
           /\ Includes(sessions[done.c].activeSpeakers, done.u)
           /\ ~Includes(sessions[done.c].raisedHands, done.u)

\* allowSpeaker returned for a user whose hand was raised up to that step
C3_Witness ==
    /\ done.op = "allowSpeaker"
    /\ done.res = "ok"
    /\ done.snap # NoDoc
    /\ done.pre # NoDoc
    /\ Includes(done.pre.raisedHands, done.u)
    /\ Includes(sessions[done.c].activeSpeakers, done.u)

\* C4: on any live session, running raiseHand, lowerHand, allowSpeaker or
\* muteSpeaker twice for the same user leaves the same raisedHands and
\* activeSpeakers as running it once.
C4_Idempotent ==
    \A c \in ClassIds, u \in Users, op \in MemberOps :
        sessions[c] # NoDoc =>
            LET once == RunAlone(op, sessions[c], u)
                twice == RunAlone(op, once, u)
            IN /\ twice.raisedHands = once.raisedHands
               /\ twice.activeSpeakers = once.activeSpeakers

\* C5: no stored raisedHands or activeSpeakers array holds a user id twice.
C5_NoDuplicates ==
    \A c \in ClassIds, u \in Users :
        sessions[c] # NoDoc =>
            /\ Count(sessions[c].raisedHands, u) <= 1
            /\ Count(sessions[c].activeSpeakers, u) <= 1

\* C6: right after endSession(c), getSessionState(c) is absent, whatever the
\* session was before.
C6_EndThenGet ==
    done.op = "endSession" => GetLiveSessionState(done.c) = NoDoc

\* endSession returned on a session that had left camera mode and had a
\* raised hand and a speaker
C6_Witness ==
    /\ done.op = "endSession"
    /\ done.res = "ok"
    /\ done.pre # NoDoc
    /\ done.pre.mode # "camera"
    /\ done.pre.raisedHands # <<>>
    /\ done.pre.activeSpeakers # <<>>
    /\ GetLiveSessionState(done.c) = NoDoc

\* C7: a step that takes a class from no session record to a session record
\* is the completion of startSession for that class; no raiseHand,
\* lowerHand, allowSpeaker, muteSpeaker or updateStreamMode does it.
C7_OnlyStartCreates ==
    [][\A c \in ClassIds :
          (sessions[c] = NoDoc /\ sessions'[c] # NoDoc)
              => (done'.op = "startSession" /\ done'.c = c)]_vars

\* a call that read the record before its deletion wrote after it, and the
\* record is still absent
C7_Witness ==
    /\ done.op \in MemberOps
    /\ done.snap # NoDoc
    /\ done.pre = NoDoc
    /\ sessions[done.c] = NoDoc

\* C8: muteSpeaker(c,u) on a live session removes u from activeSpeakers,
\* keeps every other entry in place, and leaves raisedHands and mode as
\* they were.
C8_MuteFrame ==
    (done.op = "muteSpeaker" /\ done.pre # NoDoc)
        => /\ sessions[done.c] # NoDoc
           /\ ~Includes(sessions[done.c].activeSpeakers, done.u)
           /\ sessions[done.c].activeSpeakers
                  = FilterOut(done.pre.activeSpeakers, done.u)
           /\ sessions[done.c].raisedHands = done.pre.raisedHands
           /\ sessions[done.c].mode = done.pre.mode

\* muteSpeaker removed one of two speakers while a hand was raised
C8_Witness ==
    /\ done.op = "muteSpeaker"
    /\ done.pre # NoDoc
    /\ Includes(done.pre.activeSpeakers, done.u)
    /\ Len(done.pre.activeSpeakers) = 2
    /\ Len(sessions[done.c].activeSpeakers) = 1
    /\ sessions[done.c].raisedHands # <<>>

\* C9: the document-store raiseHand writes the array it read plus its user:
\* a hand another writer added between that read and this write is dropped.
C9_WriteFromSnapshot ==
    (/\ impl = "firebase"
     /\ done.op = "raiseHand"
     /\ done.res = "ok"
     /\ done.snap # NoDoc
     /\ ~Includes(done.snap.raisedHands, done.u))
        => sessions[done.c].raisedHands = Append(done.snap.raisedHands, done.u)

\* both raiseHand calls have returned, nothing is in flight, and the hand
\* of the other user, stored until this write, is gone
C9_LostUpdate ==
    /\ impl = "firebase"
    /\ inflight = EmptyBag
    /\ done.op = "raiseHand"
    /\ done.res = "ok"
    /\ done.snap # NoDoc
    /\ \E v \in Users \ {done.u} :
          /\ Includes(done.pre.raisedHands, v)
          /\ ~Includes(sessions[done.c].raisedHands, v)
    /\ Includes(sessions[done.c].raisedHands, done.u)

\* C10: raiseHand, lowerHand, allowSpeaker or muteSpeaker called for a class
\* with no session record returns without an error and changes neither the
\* sessions nor the classes.
C10_NoSessionNoOp ==
    [][(/\ ncalls' = ncalls + 1
        /\ done'.op \in MemberOps
        /\ done'.snap = NoDoc)
          => (/\ done'.res = "ok"
              /\ sessions' = sessions
              /\ classes' = classes)]_vars

\* lowerHand returned on a class that exists and has no session record
C10_Witness ==
    /\ done.op = "lowerHand"
    /\ done.snap = NoDoc
    /\ done.res = "ok"
    /\ done.c \in DOMAIN classes
    /\ sessions[done.c] = NoDoc


\* C11: setting the mode to SCREEN on a class that is not live and has no
\* session record is a no-op: the call reports no error, creates no record,
\* and the session state read afterwards is still absent.
C11_SetModeNoSession ==
    [][\A c \in ClassIds :
          ( /\ sessions[c] = NoDoc
            /\ (c \in DOMAIN classes => ~classes[c])
            /\ (MockUpdateStreamMode(c, "screen") \/ FbUpdateStreamMode(c, "screen")) )
          => ( /\ done'.res = "ok"
               /\ sessions' = sessions
               /\ GetLiveSessionState(c)' = NoDoc )]_vars

\* the class was started and ended, and a second endSession, made right
\* after the first, has just returned
EndedTwice(c) ==
    /\ done.op = "endSession"
    /\ Len(log) >= 4
    /\ log[1] = <<"startSession", c, NoUser>>
    /\ log[Len(log) - 1] = <<"endSession", c, NoUser>>
    /\ log[Len(log)] = <<"endSession", c, NoUser>>

\* C12: ending the session of a class whose session is already ended is a
\* no-op and not an error: the class stays not live and its session stays
\* absent.
C12_EndIdempotent ==
    \A c \in SeqClasses :
        EndedTwice(c) =>
            /\ done.res = "ok"
            /\ done.pre = NoDoc
            /\ ~classes[c]
            /\ sessions[c] = NoDoc

C12_Witness ==
    \E c \in SeqClasses :
        /\ EndedTwice(c)
        /\ \E i \in 2..(Len(log) - 2) : log[i][1] = "raiseHand"
        /\ done.res = "ok"
        /\ ~classes[c] /\ sessions[c] = NoDoc

\* C13 as stated: starting a session for an id that is no class fails
\* silently, with no error and no session record, whatever the implementation.
C13_StartUnknownSilent ==
    (done.op = "startSession" /\ done.c \notin DOMAIN classes)
        => (done.res = "ok" /\ sessions[done.c] = NoDoc)

\* C13: starting a session for an id that is no class creates no session
\* record and creates or changes no class record; the in-memory service
\* reports no error, the Firestore service rejects the call.
C13_StartUnknownClass ==
    [][(/\ ncalls' = ncalls + 1
        /\ done'.op = "startSession"
        /\ done'.c \notin DOMAIN classes)
          => ( /\ sessions' = sessions
               /\ classes' = classes
               /\ inflight' = inflight
               /\ done'.res = IF impl = "mock" THEN "ok" ELSE "error" )]_vars

C13_Witness ==
    /\ done.op = "startSession"
    /\ done.c \notin DOMAIN classes
    /\ sessions[done.c] = NoDoc
    /\ \E c \in DOMAIN classes : sessions[c] # NoDoc


\* the last n calls of the log
LastCalls(n) == SubSeq(log, Len(log) - n + 1, Len(log))

\* a startSession of c has just returned, after an earlier startSession and
\* endSession of c
SecondCycle(c) ==
    /\ done.op = "startSession"
    /\ Len(log) >= 3
    /\ log[Len(log)] = <<"startSession", c, NoUser>>
    /\ \E i, j \in 1..(Len(log) - 1) :
          /\ i < j
          /\ log[i] = <<"startSession", c, NoUser>>
          /\ log[j] = <<"endSession", c, NoUser>>

\* C14: of two start/end cycles made one after the other, the second begins
\* with no membership left from the first: right after the second
\* startSession both raised_hands and active_speakers are empty.
C14_SecondCycleEmpty ==
    \A c \in SeqClasses :
        SecondCycle(c) =>
            /\ sessions[c] # NoDoc
            /\ sessions[c].raisedHands = <<>>
            /\ sessions[c].activeSpeakers = <<>>

C14_Witness ==
    \E c \in SeqClasses, u \in Users :
        /\ SecondCycle(c)
        /\ log[1] = <<"startSession", c, NoUser>>
        /\ log[2] = <<"raiseHand", c, u>>
        /\ log[3] = <<"allowSpeaker", c, u>>
        /\ log[4] = <<"endSession", c, NoUser>>
        /\ sessions[c] = NewSession(c)

\* the scenario start, raiseHand(a), raiseHand(b), admitSpeaker(a),
\* lowerHand(b) has just been run, call after call
HandsScenario(c, a, b) ==
    /\ a # b
    /\ done.op = "lowerHand"
    /\ Len(log) >= 5
    /\ LastCalls(5) = << <<"startSession", c, NoUser>>, <<"raiseHand", c, a>>,
                         <<"raiseHand", c, b>>, <<"allowSpeaker", c, a>>,
                         <<"lowerHand", c, b>> >>

\* C15: start, raiseHand(A), raiseHand(B), admitSpeaker(A), lowerHand(B),
\* one after the other, end with raised_hands empty and active_speakers
\* holding exactly A.
C15_ScenarioResult ==
    \A c \in SeqClasses, a, b \in Users :
        HandsScenario(c, a, b) =>
            /\ sessions[c] # NoDoc
            /\ sessions[c].raisedHands = <<>>
            /\ sessions[c].activeSpeakers = <<a>>

C15_Witness ==
    \E c \in SeqClasses, a, b \in Users :
        /\ HandsScenario(c, a, b)
        /\ done.res = "ok"
        /\ sessions[c].activeSpeakers = <<a>>
        /\ sessions[c].raisedHands = <<>>


\* C16: the view requests the microphone only on an observation where the
\* viewer's id went from absent to present in active_speakers: no step calls
\* getUserMedia when the previous observation already had the id.
C16_EdgeTriggered ==
    [][micRequested' => ~IsAllowed(liveState)]_vars

\* C17: an acquired microphone stream is stopped on demotion, session end or
\* teardown, whichever comes first: a stream that is not stopped exists only
\* while the component is mounted, holds it in its state, and last observed
\* the viewer among the active speakers.
C17_MicReleased ==
    /\ ~leaked
    /\ studentMicStream => (mounted /\ IsAllowed(liveState))

\* C18: once the observation is cancelled at teardown, nothing more is
\* delivered to the view: no state setter is called and no microphone is
\* requested or installed.
C18_NoLateDelivery ==
    [][~mounted => /\ UNCHANGED <<liveState, viewIsLive, raisedHandUsers,
                                   studentMicStream>>
                   /\ ~micRequested']_vars

\* the view lags behind the session record of the class it shows
Behind == mounted /\ liveState # GetLiveSessionState(ViewClass)

\* the view shows the session record as it is now, or is gone
CaughtUp == ~mounted \/ liveState = GetLiveSessionState(ViewClass)

\* C19 as stated: every state change is delivered to an active viewer, so no
\* value of the record is overwritten before the viewer has observed it or a
\* snapshot of it is on its way.
C19_EveryChangeObserved ==
    [][(mounted /\ GetLiveSessionState(ViewClass)' # GetLiveSessionState(ViewClass))
          => \/ liveState = GetLiveSessionState(ViewClass)
             \/ \E i \in 1..Len(snaps) : snaps[i] = GetLiveSessionState(ViewClass)]_vars

\* C19: a viewer that lags behind the session record catches up: the next
\* poll tick or the pushed snapshots bring it the record as it then is.
C19_EventuallyDelivered == Behind ~> CaughtUp

C19_Witness ==
    /\ mounted
    /\ liveState # NoDoc
    /\ liveState.raisedHands # <<>>
    /\ liveState = GetLiveSessionState(ViewClass)
    /\ ncalls >= 2

\* C20: after the teacher ended the session and the viewer observed it, the
\* view reads "no session": state null, live flag false, and none of the last
\* record's raised hands kept as current data.
C20_NoSessionUnambiguous ==
    ( /\ mounted
      /\ ~classes[ViewClass]
      /\ GetLiveSessionState(ViewClass) = NoDoc
      /\ liveState = NoDoc
      /\ snaps = <<>> )
    => (~viewIsLive /\ raisedHandUsers = <<>>)


\* C27: admitSpeaker(c,u) removes only u from raised_hands, also when it
\* overlaps a raiseHand(c,v) of another user: when it returns, u is an active
\* speaker and every other hand stored until its write is still raised.
C27_AdmitRemovesOnlyU ==
    (done.op = "allowSpeaker" /\ done.res = "ok" /\ done.pre # NoDoc)
        => /\ Includes(sessions[done.c].activeSpeakers, done.u)
           /\ \A v \in Users \ {done.u} :
                 Includes(done.pre.raisedHands, v)
                    => Includes(sessions[done.c].raisedHands, v)

\* the fields a membership call of the document store writes, computed from
\* the snapshot it read
FbFields(op, snap, u) ==
    CASE op = "raiseHand" -> FbRaiseHandFields(snap, u)
      [] op = "lowerHand" -> FbLowerHandFields(snap, u)
      [] op = "allowSpeaker" -> FbAllowSpeakerFields(snap, u)

\* C29: in the document store setMode and the membership calls do not lose
\* each other's effect: a membership call that writes leaves the stored mode
\* as it was and stores the lists it computed, and a mode write leaves the
\* lists as they were.
C29_ModeIndependent ==
    /\ ( /\ impl = "firebase"
         /\ done.op \in {"raiseHand", "lowerHand", "allowSpeaker"}
         /\ done.res = "ok"
         /\ done.snap # NoDoc
         /\ done.pre # NoDoc
         /\ ~(done.op = "raiseHand" /\ Includes(done.snap.raisedHands, done.u)) )
       => /\ sessions[done.c].mode = done.pre.mode
          /\ \A k \in DOMAIN FbFields(done.op, done.snap, done.u) :
                sessions[done.c][k] = FbFields(done.op, done.snap, done.u)[k]
    /\ ( /\ impl = "firebase"
         /\ done.op = "updateStreamMode"
         /\ done.res = "ok" )
       => /\ sessions[done.c].raisedHands = done.pre.raisedHands
          /\ sessions[done.c].activeSpeakers = done.pre.activeSpeakers

\* a membership call has returned whose read and write had a mode change
\* between them; the new mode and the call's lists are both stored
C29_Witness ==
    /\ impl = "firebase"
    /\ done.op \in {"raiseHand", "allowSpeaker"}
    /\ done.res = "ok"
    /\ done.snap # NoDoc
    /\ done.pre # NoDoc
    /\ done.snap.mode = "camera"
    /\ done.pre.mode = "screen"
    /\ sessions[done.c].mode = "screen"
    /\ done.pre.raisedHands # sessions[done.c].raisedHands

\* C30: in the document store active_speakers only grows while the session
\* record exists: no step that keeps the record takes an id out of it.
C30_SpeakersOnlyGrow ==
    [][\A c \in ClassIds :
          ( /\ impl = "firebase"
            /\ sessions[c] # NoDoc
            /\ sessions'[c] # NoDoc
            /\ done'.op \notin {"startSession", "endSession"} )
          => \A u \in Users :
                Includes(sessions[c].activeSpeakers, u)
                   => Includes(sessions'[c].activeSpeakers, u)]_vars


\* the list holds exactly the ids of hands that have a profile, as often as
\* hands holds them
ExactlyTheFound(list, hands) ==
    \A u \in Users :
        Count(list, u) = IF u \in users THEN Count(hands, u) ELSE 0

\* C21: the displayed raised-hand list is exactly the profiles of the ids in
\* raised_hands whose lookup returned a profile; an id with no profile is left
\* out, the others stay, and no error state is set.
C21_BestEffort ==
    [][/\ PollTick =>
            /\ ExactlyTheFound(raisedHandUsers',
                               IF GetLiveSessionState(ViewClass) = NoDoc THEN <<>>
                               ELSE GetLiveSessionState(ViewClass).raisedHands)
            /\ error' = error
       /\ \A hands \in lookups :
            LookupDone(hands) =>
                /\ ExactlyTheFound(raisedHandUsers', hands)
                /\ error' = error]_vars

\* two hands are raised, one of a student without profile: the list shows
\* the other one and no error is set
C21_Witness ==
    /\ mounted
    /\ liveState # NoDoc
    /\ Len(liveState.raisedHands) = 2
    /\ raisedHandUsers = <<Viewer>>
    /\ \E u \in Others : Includes(liveState.raisedHands, u) /\ u \notin users
    /\ error = ""

\* C25: the live / ended notification is edge-triggered in both observation
\* modes: it is shown only on an observation whose liveness differs from the
\* liveness observed before, and on every such observation.
C25_NotifyOnEdge ==
    [][/\ notified' = "live" => (~viewIsLive /\ viewIsLive')
       /\ notified' = "ended" => (viewIsLive /\ ~viewIsLive')
       /\ (mounted /\ viewIsLive' # viewIsLive) => notified' # "none"]_vars

\* C28: in the push view, once every snapshot is delivered and every profile
\* lookup has resolved, the displayed raised-hand list is the resolved hands
\* of the snapshot delivered last.
C28_ConvergesToLatest ==
    ( /\ impl = "firebase"
      /\ mounted
      /\ snaps = <<>>
      /\ lookups = {} )
    => raisedHandUsers =
          IF liveState = NoDoc THEN <<>> ELSE Resolved(liveState.raisedHands)


\* the session, the class and the observation of the view are as before
\* the step
Undisturbed ==
    /\ sessions' = sessions
    /\ classes' = classes
    /\ mounted' = mounted
    /\ snaps' = snaps
    /\ liveState' = liveState
    /\ viewIsLive' = viewIsLive

\* C22: a denied or unavailable capture (the student's microphone, the
\* teacher's camera or screen) is caught and shown as an error message, and
\* is not fatal: the session record and the live flag stay as they are and the
\* view stays mounted and listening.
C22_DeniedCaptureNonFatal ==
    [][/\ MicDenied => (error' = MicError /\ Undisturbed)
       /\ \A m \in captures :
            CaptureDenied(m) => (error' = MediaError /\ Undisturbed)]_vars

\* the teacher's capture was refused during a live session; the session is
\* still live and the view has since observed a raised hand
C22_Witness ==
    /\ role = "teacher"
    /\ error = MediaError
    /\ mounted
    /\ classes[ViewClass]
    /\ GetLiveSessionState(ViewClass) # NoDoc
    /\ GetLiveSessionState(ViewClass).mode = "camera"
    /\ liveState = GetLiveSessionState(ViewClass)
    /\ raisedHandUsers # <<>>

\* C26: in the teacher's push view, with M the mode selected last and no
\* further selection, a snapshot that is delivered while the capture for M is
\* pending does not revert the selection.
C26_SelectionHolds ==
    [][(Deliver /\ selected # NoUser /\ streamMode = selected
                /\ selected \in captures)
          => streamMode' = selected]_vars

\* C23: getClasses is scoped to the caller: a teacher gets exactly the classes
\* whose teacher_id is the caller, a student gets every class of an enrollment
\* record of that student and no other class, however many enrollments the
\* student has.
C23_ScopedToCaller ==
    listed # NoCall =>
        listed.classes =
            IF listed.role = "teacher"
            THEN {c \in Courses : TeacherOf(c) = listed.user}
            ELSE {c \in Courses :
                    \E e \in enrollments :
                        e.student_id = listed.user /\ e.class_id = c}


============================================================================
